---- MODULE Spec2Model ----
(***************************************************************************)
(* Model of server.py (pr-agent MCP server): the git change collector      *)
(* (_get_git_changes), the workflow event views (get_workflow_status,      *)
(* get_recent_actions_events) and template selection (suggest_template).   *)
(*                                                                         *)
(* Python strings whose characters matter (diff output, workflow names,    *)
(* timestamps, classification strings) are sequences of one-character      *)
(* strings; strings that are only passed through are TLA+ strings.         *)
(* The operations share no state; the orchestrating agent is modelled as   *)
(* invoking one tool at a time (op names the tool in progress).            *)
(***************************************************************************)
EXTENDS Integers, Sequences, FiniteSets, TLC

VARIABLES
    op,               \* tool in progress: "none", "analyze", "workflow", "recent", "template"
    pc,               \* position inside the tool in progress
    include_diff,     \* _get_git_changes argument
    max_diff_lines,   \* _get_git_changes argument
    issued,           \* git commands run by the current call, in order, with their outcome
    changed_files,    \* local of _get_git_changes
    stat_result,      \* local: stdout of the --stat command
    diff_stdout,      \* local: diff_result.stdout
    diff,             \* local
    truncated,        \* local
    diff_line_count,  \* local
    commits_result,   \* local: stdout of the log command
    events,           \* value returned by _get_events()
    workflow_name,    \* get_workflow_status argument
    limit,            \* get_recent_actions_events argument
    workflow_statuses,\* local dict of get_workflow_status, in insertion order
    changes_summary,  \* suggest_template argument
    change_type,      \* suggest_template argument
    templates,        \* local of suggest_template: the loaded catalog
    ret               \* value returned by the tool in progress

vars ==
    <<op, pc, include_diff, max_diff_lines, issued, changed_files, stat_result,
      diff_stdout, diff, truncated, diff_line_count, commits_result, events,
      workflow_name, limit, workflow_statuses, changes_summary, change_type,
      templates, ret>>

gitVars ==
    <<include_diff, max_diff_lines, issued, changed_files, stat_result,
      diff_stdout, diff, truncated, diff_line_count, commits_result>>

eventVars ==
    <<events, workflow_name, limit, workflow_statuses>>

templateVars ==
    <<changes_summary, change_type, templates>>

(***************************************************************************)
(* Bounds                                                                  *)
(***************************************************************************)
MaxDiffLen == 4      \* longest enumerated diff output, in characters
MaxCap == 3          \* largest enumerated max_diff_lines (besides the scenario's 5)
MaxEvents == 3       \* longest event feed
MaxLimit == 4        \* largest limit of get_recent_actions_events

(***************************************************************************)
(* Python values                                                           *)
(***************************************************************************)
None ==
    "None"

NL ==
    "\n"

FF ==
    "\f"

\* Line boundaries of str.splitlines that survive universal-newline decoding
\* in the modelled alphabet.
LineBoundaries ==
    {NL, FF}

\* Characters removed by str.strip().
Whitespace ==
    {" ", "\t", NL, FF}

Min(a, b) ==
    IF a < b THEN a ELSE b

Max(a, b) ==
    IF a > b THEN a ELSE b

RECURSIVE StringsUpTo(_, _)
StringsUpTo(alphabet, n) ==
    IF n = 0 THEN {<<>>}
    ELSE LET shorter == StringsUpTo(alphabet, n - 1)
         IN  shorter \cup {Append(s, c) : s \in shorter, c \in alphabet}

\* seq[:n] for n >= 0
Take(seq, n) ==
    SubSeq(seq, 1, Min(n, Len(seq)))

\* seq[start:] for any integer start (negative counts from the end)
SliceFrom(seq, start) ==
    LET n == Len(seq)
        first == IF start < 0 THEN Max(n + start, 0) ELSE Min(start, n)
    IN  SubSeq(seq, first + 1, n)

\* str.splitlines()
RECURSIVE splitlines_from(_, _, _, _)
splitlines_from(s, i, cur, acc) ==
    IF i > Len(s) THEN (IF cur = <<>> THEN acc ELSE Append(acc, cur))
    ELSE IF s[i] \in LineBoundaries
         THEN splitlines_from(s, i + 1, <<>>, Append(acc, cur))
         ELSE splitlines_from(s, i + 1, Append(cur, s[i]), acc)

splitlines(s) ==
    splitlines_from(s, 1, <<>>, <<>>)

\* str.split(sep) for a one-character sep
RECURSIVE split_from(_, _, _, _, _)
split_from(s, sep, i, cur, acc) ==
    IF i > Len(s) THEN Append(acc, cur)
    ELSE IF s[i] = sep
         THEN split_from(s, sep, i + 1, <<>>, Append(acc, cur))
         ELSE split_from(s, sep, i + 1, Append(cur, s[i]), acc)

split(s, sep) ==
    split_from(s, sep, 1, <<>>, <<>>)

\* str.strip()
strip(s) ==
    LET keep == {i \in 1..Len(s) : s[i] \notin Whitespace}
    IN  IF keep = {} THEN <<>>
        ELSE SubSeq(s, CHOOSE i \in keep : \A j \in keep : i <= j,
                       CHOOSE i \in keep : \A j \in keep : i >= j)

\* sep.join(lines)
RECURSIVE join(_, _)
join(sep, lines) ==
    IF lines = <<>> THEN <<>>
    ELSE IF Len(lines) = 1 THEN lines[1]
    ELSE lines[1] \o sep \o join(sep, Tail(lines))

SelectNonEmpty(lines) ==
    SelectSeq(lines, LAMBDA l : l # <<>>)

\* [line.strip() for line in stdout.strip().split("\n") if line.strip()]
parse_changed_files(stdout) ==
    LET raw == split(strip(stdout), NL)
    IN  SelectNonEmpty([i \in 1..Len(raw) |-> strip(raw[i])])

(***************************************************************************)
(* Change collector: _get_git_changes                                      *)
(***************************************************************************)
\* The literal appended on truncation.  The source string has no f prefix,
\* so the braces are part of the text.
TRAILER ==
    <<NL, NL,
      "... Output truncated. Showing {max_diff_lines} of {len(diff_lines)} lines ...",
      NL,
      "... Use max_diff_lines parameter to see more ...">>

PLACEHOLDER ==
    <<"Diff not included (set include_diff=true to see full diff)">>

\* truncate_diff keeping one line too many
truncate_diff_one_more(diff_lines, cap) ==
    join(<<NL>>, Take(diff_lines, cap + 1)) \o TRAILER

\* "\n".join(diff_lines[:max_diff_lines]) + "\n\n... Output truncated. ..."
truncate_diff(diff_lines, cap) ==
    join(<<NL>>, Take(diff_lines, cap)) \o TRAILER

\* exceeds_cap with the comparison off by one
exceeds_cap_inclusive(count, cap) ==
    count >= cap

\* diff_line_count > max_diff_lines
exceeds_cap(count, cap) ==
    count > cap

\* Outcomes of subprocess.run: the process exits with a code, or run itself
\* raises (git not installed, working_dir missing).
GitErrors ==
    {"fatal: bad revision", "fatal: not a git repository"}

Exited(rc, out, err) ==
    [kind |-> "exit", rc |-> rc, stdout |-> out, stderr |-> err]

Raised ==
    [kind |-> "raise", rc |-> 0, stdout |-> <<>>, stderr |-> "FileNotFoundError"]

RunOutcomes(outputs) ==
    {Exited(0, o, "") : o \in outputs}
        \cup {Exited(128, <<>>, e) : e \in GitErrors}
        \cup {Raised}

NameStatusOutputs ==
    {<<>>,
     <<"M", "\t", "f", NL, NL, " ", "A", "\t", "g", " ", NL>>}

StatOutputs ==
    {<<" 2 files changed, 3 insertions(+)">>}

LogOutputs ==
    {<<"abc1234 fix", NL>>}

DiffAlphabet ==
    {"a", "b", NL, FF}

\* The twelve-line diff of the documented truncation scenario (cap 5).
ScenarioDiff ==
    [i \in 1..24 |-> IF i % 2 = 1 THEN "a" ELSE NL]

DiffOutputs ==
    StringsUpTo(DiffAlphabet, MaxDiffLen) \cup {ScenarioDiff}

Caps ==
    0..MaxCap \cup {5}

Issue(cmd, outcome) ==
    Append(issued, [cmd |-> cmd, kind |-> outcome.kind, rc |-> outcome.rc,
                    stderr |-> outcome.stderr])

\* subprocess.run raises CalledProcessError only when called with check=True
\* and the process exits non-zero.
called_process_error(outcome, check) ==
    check /\ outcome.kind = "exit" /\ outcome.rc # 0

GitError(stderr) ==
    [kind |-> "error", prefix |-> "Git error: ", text |-> stderr]

OtherError(prefix, text) ==
    [kind |-> "error", prefix |-> prefix, text |-> text]

NoRet ==
    [kind |-> "none"]

\* ChangeSet without the include_diff conditionals
ChangeSet_unconditional ==
    [kind |-> "changeset",
     changed_files |-> changed_files,
     statistics |-> stat_result,
     diff |-> diff,
     truncated |-> truncated,
     diff_line_count |-> diff_line_count,
     commits |-> commits_result]

\* the returned dict, from the locals at the return statement
ChangeSet ==
    [kind |-> "changeset",
     changed_files |-> changed_files,
     statistics |-> stat_result,
     diff |-> IF include_diff THEN diff ELSE PLACEHOLDER,
     truncated |-> truncated,
     diff_line_count |-> diff_line_count,
     commits |-> IF include_diff THEN commits_result ELSE <<None>>]

\* analyze_file_changes -> _get_git_changes(cwd, base_branch, include_diff, max_diff_lines)
analyze_file_changes(inc, cap) ==
    /\ op = "none"
    /\ op' = "analyze"
    /\ pc' = "name_status"
    /\ include_diff' = inc
    /\ max_diff_lines' = cap
    /\ issued' = <<>>
    /\ UNCHANGED <<changed_files, stat_result, diff_stdout, diff, truncated,
                   diff_line_count, commits_result, ret>>
    /\ UNCHANGED <<eventVars, templateVars>>

\* git diff --name-status base...HEAD, check=True
run_name_status ==
    /\ op = "analyze" /\ pc = "name_status"
    /\ \E outcome \in RunOutcomes(NameStatusOutputs) :
        /\ issued' = Issue("name_status", outcome)
        /\ IF outcome.kind = "raise"
           THEN /\ ret' = OtherError("Failed to get changed files or stats: ", outcome.stderr)
                /\ pc' = "done"
                /\ UNCHANGED changed_files
           ELSE IF called_process_error(outcome, TRUE)
           THEN /\ ret' = GitError(outcome.stderr)
                /\ pc' = "done"
                /\ UNCHANGED changed_files
           ELSE /\ changed_files' = parse_changed_files(outcome.stdout)
                /\ pc' = "stat"
                /\ UNCHANGED ret
        /\ UNCHANGED <<op, include_diff, max_diff_lines, stat_result, diff_stdout, diff,
                       truncated, diff_line_count, commits_result>>
        /\ UNCHANGED <<eventVars, templateVars>>

\* git diff --stat base...HEAD (no check), then the initialisation of
\* diff, truncated, diff_line_count and the include_diff branch; without
\* include_diff the function returns here
run_stat ==
    /\ op = "analyze" /\ pc = "stat"
    /\ \E outcome \in RunOutcomes(StatOutputs) :
        /\ issued' = Issue("stat", outcome)
        /\ UNCHANGED <<op, include_diff, max_diff_lines, changed_files, diff_stdout,
                       commits_result>>
        /\ IF outcome.kind = "raise"
           THEN /\ ret' = OtherError("Failed to get changed files or stats: ", outcome.stderr)
                /\ pc' = "done"
                /\ UNCHANGED <<stat_result, diff, truncated, diff_line_count>>
           ELSE IF called_process_error(outcome, FALSE)
           THEN /\ ret' = GitError(outcome.stderr)
                /\ pc' = "done"
                /\ UNCHANGED <<stat_result, diff, truncated, diff_line_count>>
           ELSE /\ stat_result' = outcome.stdout
                /\ diff' = <<>>
                /\ truncated' = FALSE
                /\ diff_line_count' = 0
                /\ IF include_diff
                   THEN pc' = "diff" /\ UNCHANGED ret
                   ELSE pc' = "done" /\ ret' = ChangeSet'
        /\ UNCHANGED <<eventVars, templateVars>>

\* git diff base...HEAD, check=True, then the truncation
run_diff ==
    /\ op = "analyze" /\ pc = "diff"
    /\ \E outcome \in RunOutcomes(DiffOutputs) :
        /\ issued' = Issue("diff", outcome)
        /\ IF outcome.kind = "raise"
           THEN /\ ret' = OtherError("Failed to get diff or commits: ", outcome.stderr)
                /\ pc' = "done"
                /\ UNCHANGED <<diff_stdout, diff, truncated, diff_line_count>>
           ELSE IF called_process_error(outcome, TRUE)
           THEN /\ ret' = GitError(outcome.stderr)
                /\ pc' = "done"
                /\ UNCHANGED <<diff_stdout, diff, truncated, diff_line_count>>
           ELSE LET diff_lines == splitlines(outcome.stdout)
                IN  /\ diff_stdout' = outcome.stdout
                    /\ diff_line_count' = Len(diff_lines)
                    /\ IF exceeds_cap(Len(diff_lines), max_diff_lines)
                       THEN /\ diff' = truncate_diff(diff_lines, max_diff_lines)
                            /\ truncated' = TRUE
                       ELSE /\ diff' = outcome.stdout
                            /\ UNCHANGED truncated
                    /\ pc' = "log"
                    /\ UNCHANGED ret
        /\ UNCHANGED <<op, include_diff, max_diff_lines, changed_files, stat_result,
                       commits_result>>
        /\ UNCHANGED <<eventVars, templateVars>>

\* git log --oneline base..HEAD (no check), then the return statement
run_log ==
    /\ op = "analyze" /\ pc = "log"
    /\ \E outcome \in RunOutcomes(LogOutputs) :
        /\ issued' = Issue("log", outcome)
        /\ UNCHANGED <<op, include_diff, max_diff_lines, changed_files, stat_result,
                       diff_stdout, diff, truncated, diff_line_count>>
        /\ IF outcome.kind = "raise"
           THEN /\ ret' = OtherError("Failed to get diff or commits: ", outcome.stderr)
                /\ pc' = "done"
                /\ UNCHANGED commits_result
           ELSE IF called_process_error(outcome, FALSE)
           THEN /\ ret' = GitError(outcome.stderr)
                /\ pc' = "done"
                /\ UNCHANGED commits_result
           ELSE /\ commits_result' = outcome.stdout
                /\ pc' = "done"
                /\ ret' = ChangeSet'
        /\ UNCHANGED <<eventVars, templateVars>>

(***************************************************************************)
(* Event views: _get_events, get_recent_actions_events, get_workflow_status *)
(***************************************************************************)
UpperChars ==
    <<"A", "B", "C", "D", "E", "F", "G", "H", "I", "J", "K", "L", "M",
      "N", "O", "P", "Q", "R", "S", "T", "U", "V", "W", "X", "Y", "Z">>

LowerChars ==
    <<"a", "b", "c", "d", "e", "f", "g", "h", "i", "j", "k", "l", "m",
      "n", "o", "p", "q", "r", "s", "t", "u", "v", "w", "x", "y", "z">>

lower_char(c) ==
    IF \E i \in 1..26 : UpperChars[i] = c
    THEN LowerChars[CHOOSE i \in 1..26 : UpperChars[i] = c]
    ELSE c

\* lower that leaves the string as it is (a case-sensitive comparison)
lower_identity(s) ==
    s

\* str.lower()
lower(s) ==
    [i \in 1..Len(s) |-> lower_char(s[i])]

\* Code-point order of the characters that occur in timestamps.
CharOrder ==
    <<"-", "0", "1", "2", "3", "4", "5", "6", "7", "8", "9", ":", "T", "Z">>

ord(c) ==
    CHOOSE i \in 1..Len(CharOrder) : CharOrder[i] = c

\* a > b on Python strings: lexicographic by code point, a proper prefix is smaller
RECURSIVE str_gt(_, _)
str_gt(a, b) ==
    IF a = <<>> THEN FALSE
    ELSE IF b = <<>> THEN TRUE
    ELSE IF a[1] = b[1] THEN str_gt(Tail(a), Tail(b))
    ELSE ord(a[1]) > ord(b[1])

\* Python truthiness of a str-or-None value (a missing key reads as None)
truthy(s) ==
    s # <<>> /\ s # <<None>>

\* dict operations; a dict is the sequence of its items in insertion order
dict_has(d, k) ==
    \E i \in 1..Len(d) : d[i].key = k

dict_get(d, k) ==
    d[CHOOSE i \in 1..Len(d) : d[i].key = k].value

dict_set(d, k, v) ==
    IF dict_has(d, k)
    THEN [i \in 1..Len(d) |-> IF d[i].key = k THEN [key |-> k, value |-> v] ELSE d[i]]
    ELSE Append(d, [key |-> k, value |-> v])

dict_values(d) ==
    [i \in 1..Len(d) |-> d[i].value]

\* is_newer with the comparison reversed (keeps the oldest run)
is_newer_reversed(created_at, stored) ==
    str_gt(stored, created_at)

\* is_newer without the comparison (the last event seen wins)
is_newer_always(created_at, stored) ==
    TRUE

\* created_at > workflow_statuses[workflow_id]["created_at"]
is_newer(created_at, stored) ==
    str_gt(created_at, stored)

\* workflow_name and workflow_name.lower() != workflow_name_from_event.lower()
filtered_out(wname, name_from_event) ==
    truthy(wname) /\ lower(wname) # lower(name_from_event)

\* one iteration of the loop over events
update_statuses(statuses, event, wname) ==
    LET run == event.workflow_run
    IN  IF event.event_type # "workflow_run" THEN statuses
        ELSE IF ~(run.workflow_id # 0 /\ truthy(run.name) /\ truthy(run.created_at))
        THEN statuses
        ELSE IF filtered_out(wname, run.name) THEN statuses
        ELSE IF \/ ~dict_has(statuses, run.workflow_id)
                \/ is_newer(run.created_at, dict_get(statuses, run.workflow_id).created_at)
        THEN dict_set(statuses, run.workflow_id,
                      [name |-> run.name, status |-> run.status,
                       conclusion |-> run.conclusion, url |-> run.html_url,
                       created_at |-> run.created_at])
        ELSE statuses

RECURSIVE aggregate_from(_, _, _, _)
aggregate_from(evs, i, statuses, wname) ==
    IF i > Len(evs) THEN statuses
    ELSE aggregate_from(evs, i + 1, update_statuses(statuses, evs[i], wname), wname)

\* the loop of get_workflow_status, from an empty dict
aggregate(evs, wname) ==
    aggregate_from(evs, 1, <<>>, wname)

\* list.sort(key=created_at, reverse=True): stable, descending
RECURSIVE sort_desc_from(_, _, _)
sort_desc_from(seq, i, sorted) ==
    IF i > Len(seq) THEN sorted
    ELSE LET x == seq[i]
             smaller == {j \in 1..Len(sorted) : str_gt(x.created_at, sorted[j].created_at)}
             at == IF smaller = {} THEN Len(sorted) + 1
                   ELSE CHOOSE j \in smaller : \A k \in smaller : j <= k
         IN  sort_desc_from(seq, i + 1,
                 SubSeq(sorted, 1, at - 1) \o <<x>> \o SubSeq(sorted, at, Len(sorted)))

\* sort_desc that leaves the dict's insertion order (the sort left out)
sort_desc_skipped(seq) ==
    seq

sort_desc(seq) ==
    sort_desc_from(seq, 1, <<>>)

\* events[-limit:]
recent_slice(evs, lim) ==
    SliceFrom(evs, 0 - lim)

\* The feed: workflow_run events of two workflows, and malformed records.
CI ==
    <<"C", "I">>

Dp ==
    <<"D", "p">>

Times ==
    {<<"9">>, <<"1", "0">>}

Run(id, name, status, conclusion, url, created_at) ==
    [workflow_id |-> id, name |-> name, status |-> status,
     conclusion |-> conclusion, html_url |-> url, created_at |-> created_at]

Event(type, run) ==
    [event_type |-> type, workflow_run |-> run]

WellFormedEvents ==
    {Event("workflow_run", Run(id, CI, "queued", None, "https://gh/run/1", t))
        : id \in {1, 2}, t \in Times}
    \cup
    {Event("workflow_run", Run(id, Dp, "completed", "success", "https://gh/run/2", t))
        : id \in {1, 2}, t \in Times}

MalformedEvents ==
    {Event("push", Run(1, CI, "completed", "failure", "https://gh/run/3", <<"9">>)),
     Event("workflow_run", Run(0, CI, "completed", "failure", "https://gh/run/3", <<"9">>)),
     Event("workflow_run", Run(1, <<>>, "completed", "failure", "https://gh/run/3", <<"9">>)),
     Event("workflow_run", Run(1, CI, "completed", "failure", "https://gh/run/3", <<>>))}

EventUniverse ==
    WellFormedEvents \cup MalformedEvents

Feeds ==
    StringsUpTo(EventUniverse, MaxEvents)

\* _get_events(): the decoded JSON list, or {"error": ...} on any exception
FetchResults ==
    {[kind |-> "ok", list |-> f] : f \in Feeds}
        \cup {[kind |-> "error", list |-> <<>>]}

WorkflowNames ==
    {<<None>>, <<>>, <<"c", "i">>, <<"D", "P">>}

Limits ==
    0..MaxLimit

get_workflow_status(wname) ==
    /\ op = "none"
    /\ op' = "workflow"
    /\ pc' = "fetch"
    /\ workflow_name' = wname
    /\ UNCHANGED <<events, limit, workflow_statuses, ret>>
    /\ UNCHANGED <<gitVars, templateVars>>

get_recent_actions_events(lim) ==
    /\ op = "none"
    /\ op' = "recent"
    /\ pc' = "fetch"
    /\ limit' = lim
    /\ UNCHANGED <<events, workflow_name, workflow_statuses, ret>>
    /\ UNCHANGED <<gitVars, templateVars>>

\* get_recent_actions_events from the completion of await _get_events()
recent_result ==
    /\ op = "recent" /\ pc = "fetch"
    /\ \E fetched \in FetchResults :
        /\ events' = fetched
        /\ ret' = IF fetched.kind = "error"
                  THEN [kind |-> "error", prefix |-> "Failed to fetch events: ", text |-> ""]
                  ELSE IF fetched.list = <<>>
                  THEN [kind |-> "message"]
                  ELSE [kind |-> "events", list |-> recent_slice(fetched.list, limit)]
        /\ pc' = "done"
        /\ UNCHANGED <<op, workflow_name, limit, workflow_statuses, gitVars, templateVars>>

\* get_workflow_status from the completion of await _get_events(): the
\* loop, the values, the sort
workflow_status_result ==
    /\ op = "workflow" /\ pc = "fetch"
    /\ \E fetched \in FetchResults :
        /\ events' = fetched
        /\ IF fetched.kind = "error"
           THEN /\ ret' = [kind |-> "error", prefix |-> "Failed to fetch events: ", text |-> ""]
                /\ UNCHANGED workflow_statuses
           ELSE IF fetched.list = <<>>
           THEN /\ ret' = [kind |-> "message"]
                /\ UNCHANGED workflow_statuses
           ELSE /\ workflow_statuses' = aggregate(fetched.list, workflow_name)
                /\ ret' = [kind |-> "statuses",
                           list |-> sort_desc(dict_values(workflow_statuses'))]
        /\ pc' = "done"
        /\ UNCHANGED <<op, workflow_name, limit, gitVars, templateVars>>

(***************************************************************************)
(* Template selection: get_pr_templates, suggest_template                  *)
(***************************************************************************)
DEFAULT_TEMPLATES ==
    <<[key |-> "bug.md", value |-> "Bug Fix"],
      [key |-> "feature.md", value |-> "Feature"],
      [key |-> "docs.md", value |-> "Documentation"],
      [key |-> "refactor.md", value |-> "Refactor"],
      [key |-> "test.md", value |-> "Test"],
      [key |-> "performance.md", value |-> "Performance"],
      [key |-> "security.md", value |-> "Security"]>>

TYPE_MAPPING ==
    <<[key |-> <<"b", "u", "g">>,
       value |-> "bug.md"],
      [key |-> <<"f", "i", "x">>,
       value |-> "bug.md"],
      [key |-> <<"f", "e", "a", "t", "u", "r", "e">>,
       value |-> "feature.md"],
      [key |-> <<"e", "n", "h", "a", "n", "c", "e", "m", "e", "n", "t">>,
       value |-> "feature.md"],
      [key |-> <<"d", "o", "c", "s">>,
       value |-> "docs.md"],
      [key |-> <<"d", "o", "c", "u", "m", "e", "n", "t", "a", "t", "i", "o", "n">>,
       value |-> "docs.md"],
      [key |-> <<"r", "e", "f", "a", "c", "t", "o", "r">>,
       value |-> "refactor.md"],
      [key |-> <<"c", "l", "e", "a", "n", "u", "p">>,
       value |-> "refactor.md"],
      [key |-> <<"t", "e", "s", "t">>,
       value |-> "test.md"],
      [key |-> <<"t", "e", "s", "t", "i", "n", "g">>,
       value |-> "test.md"],
      [key |-> <<"p", "e", "r", "f", "o", "r", "m", "a", "n", "c", "e">>,
       value |-> "performance.md"],
      [key |-> <<"o", "p", "t", "i", "m", "i", "z", "a", "t", "i", "o", "n">>,
       value |-> "performance.md"],
      [key |-> <<"s", "e", "c", "u", "r", "i", "t", "y">>,
       value |-> "security.md"]>>

\* the list built by get_pr_templates, in DEFAULT_TEMPLATES order
pr_templates ==
    [i \in 1..Len(DEFAULT_TEMPLATES) |->
        [filename |-> DEFAULT_TEMPLATES[i].key,
         type |-> DEFAULT_TEMPLATES[i].value,
         content |-> <<"content of", DEFAULT_TEMPLATES[i].key>>]]

\* template_file_for looking the classification up as written, without lower()
template_file_for_as_written(ctype) ==
    IF dict_has(TYPE_MAPPING, ctype)
    THEN dict_get(TYPE_MAPPING, ctype)
    ELSE "feature.md"

\* TYPE_MAPPING.get(change_type.lower(), "feature.md")
template_file_for(ctype) ==
    IF dict_has(TYPE_MAPPING, lower(ctype))
    THEN dict_get(TYPE_MAPPING, lower(ctype))
    ELSE "feature.md"

\* next((t for t in templates if t["filename"] == template_file), templates[0])
select_template(tpls, template_file) ==
    LET hits == {i \in 1..Len(tpls) : tpls[i].filename = template_file}
    IN  IF hits = {} THEN tpls[1]
        ELSE tpls[CHOOSE i \in hits : \A j \in hits : i <= j]

upper_char(c) ==
    IF \E i \in 1..26 : LowerChars[i] = c
    THEN UpperChars[CHOOSE i \in 1..26 : LowerChars[i] = c]
    ELSE c

\* Classification strings: every keyword and some other words, in four
\* letter-case patterns (as written, upper, capitalised, alternating).
OtherWords ==
    {<<>>,
     <<"c", "h", "o", "r", "e">>,
     <<"b", "u", "g", "s">>,
     <<"o", "p", "t", "i", "m", "i", "z", "e">>,
     <<"f", "i">>}

Words ==
    {TYPE_MAPPING[i].key : i \in 1..Len(TYPE_MAPPING)} \cup OtherWords

CasePatterns ==
    {"lower", "upper", "title", "alternate"}

Recase(w, pattern) ==
    [i \in 1..Len(w) |->
        IF \/ pattern = "upper"
           \/ pattern = "title" /\ i = 1
           \/ pattern = "alternate" /\ i % 2 = 0
        THEN upper_char(w[i]) ELSE w[i]]

ChangeTypes ==
    {Recase(w, p) : w \in Words, p \in CasePatterns}

Summaries ==
    {"adds retry to the fetcher", ""}

suggest_template(summary, ctype) ==
    /\ op = "none"
    /\ op' = "template"
    /\ pc' = "load"
    /\ changes_summary' = summary
    /\ change_type' = ctype
    /\ UNCHANGED <<templates, ret>>
    /\ UNCHANGED <<gitVars, eventVars>>

\* templates = json.loads(await get_pr_templates()); reading a template
\* file may raise, and suggest_template does not catch it
get_pr_templates ==
    /\ op = "template" /\ pc = "load"
    /\ \E readable \in BOOLEAN :
        /\ IF readable
           THEN /\ templates' = pr_templates
                /\ pc' = "select"
                /\ UNCHANGED ret
           ELSE /\ ret' = [kind |-> "raised"]
                /\ pc' = "done"
                /\ UNCHANGED templates
        /\ UNCHANGED <<op, changes_summary, change_type, gitVars, eventVars>>

suggestion_result ==
    /\ op = "template" /\ pc = "select"
    /\ LET selected_template == select_template(templates, template_file_for(change_type))
       IN  ret' = [kind |-> "suggestion",
                   recommended_template |-> selected_template,
                   reasoning |-> <<"Based on your analysis: '", changes_summary,
                                   "', this appears to be a ", change_type, " change.">>,
                   template_content |-> selected_template.content,
                   usage_hint |-> "Claude can help you fill out this template based on the specific changes in your PR."]
    /\ pc' = "done"
    /\ UNCHANGED <<op, gitVars, eventVars, templateVars>>

(***************************************************************************)
(* Specification                                                           *)
(***************************************************************************)
Init ==
    /\ op = "none"
    /\ pc = "idle"
    /\ include_diff = FALSE
    /\ max_diff_lines = 0
    /\ issued = <<>>
    /\ changed_files = <<>>
    /\ stat_result = <<>>
    /\ diff_stdout = <<>>
    /\ diff = <<>>
    /\ truncated = FALSE
    /\ diff_line_count = 0
    /\ commits_result = <<>>
    /\ events = [kind |-> "none", list |-> <<>>]
    /\ workflow_name = <<>>
    /\ limit = 0
    /\ workflow_statuses = <<>>
    /\ changes_summary = ""
    /\ change_type = <<>>
    /\ templates = <<>>
    /\ ret = NoRet

\* The tool's result has been handed to the caller; nothing survives the call.
finish ==
    /\ op # "none" /\ pc = "done"
    /\ op' = "none"
    /\ pc' = "idle"
    /\ include_diff' = FALSE
    /\ max_diff_lines' = 0
    /\ issued' = <<>>
    /\ changed_files' = <<>>
    /\ stat_result' = <<>>
    /\ diff_stdout' = <<>>
    /\ diff' = <<>>
    /\ truncated' = FALSE
    /\ diff_line_count' = 0
    /\ commits_result' = <<>>
    /\ events' = [kind |-> "none", list |-> <<>>]
    /\ workflow_name' = <<>>
    /\ limit' = 0
    /\ workflow_statuses' = <<>>
    /\ changes_summary' = ""
    /\ change_type' = <<>>
    /\ templates' = <<>>
    /\ ret' = NoRet

Next ==
    \/ \E inc \in BOOLEAN, cap \in Caps : analyze_file_changes(inc, cap)
    \/ run_name_status
    \/ run_stat
    \/ run_diff
    \/ run_log
    \/ \E wname \in WorkflowNames : get_workflow_status(wname)
    \/ \E lim \in Limits : get_recent_actions_events(lim)
    \/ recent_result
    \/ workflow_status_result
    \/ \E summary \in Summaries, ctype \in ChangeTypes : suggest_template(summary, ctype)
    \/ get_pr_templates
    \/ suggestion_result
    \/ finish

Spec ==
    Init /\ [][Next]_vars

(***************************************************************************)
(* Properties of the change collector                                      *)
(***************************************************************************)
\* Number of lines of a text, counted from its line boundaries: one per
\* boundary character, plus an unterminated last line.
LineCount(s) ==
    Cardinality({i \in 1..Len(s) : s[i] \in LineBoundaries})
        + (IF s # <<>> /\ s[Len(s)] \notin LineBoundaries THEN 1 ELSE 0)

AllCommandsSucceeded ==
    \A i \in 1..Len(issued) : issued[i].kind = "exit" /\ issued[i].rc = 0

ReturnedChangeSet ==
    op = "analyze" /\ pc = "done" /\ ret.kind = "changeset"

ReturnedDiff ==
    ReturnedChangeSet /\ include_diff

\* C1: with include_diff and every git command succeeding, truncated is true
\* exactly when the diff has more lines than the cap, diff_line_count is the
\* number of lines of the whole diff, and a diff within the cap is returned
\* unchanged.
C1_TruncationFlags ==
    (ReturnedDiff /\ AllCommandsSucceeded) =>
        LET N == LineCount(diff_stdout)
        IN  /\ ret.truncated <=> (N > max_diff_lines)
            /\ ret.diff_line_count = N
            /\ (N <= max_diff_lines => ret.diff = diff_stdout)

C1_Witness ==
    /\ ReturnedDiff /\ AllCommandsSucceeded
    /\ max_diff_lines = 2
    /\ LineCount(diff_stdout) = 3
    /\ ret.truncated

\* C2 as stated: the returned diff text has at most cap + 1 lines, and a
\* truncated text is the first cap diff lines followed by one trailer line.
C2_AtMostCapPlusOne ==
    ReturnedDiff =>
        /\ LineCount(ret.diff) <= max_diff_lines + 1
        /\ (diff_line_count > max_diff_lines =>
                /\ Len(splitlines(ret.diff)) = max_diff_lines + 1
                /\ Take(splitlines(ret.diff), max_diff_lines)
                       = Take(splitlines(diff_stdout), max_diff_lines))

\* The lines the trailer adds after the kept diff lines.  With no kept line
\* the newline that would end the last kept line yields one more empty line.
TrailerLines(cap) ==
    (IF cap = 0 THEN <<<<>>>> ELSE <<>>)
        \o << <<>>,
              <<"... Output truncated. Showing {max_diff_lines} of {len(diff_lines)} lines ...">>,
              <<"... Use max_diff_lines parameter to see more ...">> >>

\* C2 (amended): the returned diff text has at most cap + 4 lines; a truncated
\* text is the first cap diff lines followed by the fixed trailer text, which
\* adds a blank line and two trailer lines (one more empty line when cap = 0).
C2_AtMostCapPlusTrailer ==
    ReturnedDiff =>
        /\ LineCount(ret.diff) <= max_diff_lines + 4
        /\ (diff_line_count > max_diff_lines =>
                splitlines(ret.diff)
                    = Take(splitlines(diff_stdout), max_diff_lines)
                          \o TrailerLines(max_diff_lines))

C2_Witness ==
    /\ ReturnedDiff
    /\ max_diff_lines = 2
    /\ diff_line_count = 3
    /\ LineCount(ret.diff) = 5

Mentions(text, n) ==
    \E i \in 1..Len(text) : text[i] = ToString(n)

\* C3: the trailer of a truncated diff states the number of lines shown (the
\* cap) and the total number of diff lines of this call.
C3_TrailerStatesNumbers ==
    (ReturnedDiff /\ ret.truncated) =>
        /\ Mentions(ret.diff, max_diff_lines)
        /\ Mentions(ret.diff, diff_line_count)

\* C8: after any git command of the call exited non-zero, the call returns
\* an Error carrying that command's diagnostic text, never a ChangeSet.
C8_FailedCommandIsError ==
    (op = "analyze" /\ pc = "done") =>
        \A i \in 1..Len(issued) :
            (issued[i].kind = "exit" /\ issued[i].rc # 0) =>
                /\ ret.kind = "error"
                /\ ret.text = issued[i].stderr

\* C10: with include_diff false the returned diff text is the fixed
\* placeholder and commits is None (not an empty string), whatever the cap.
C10_PlaceholderWithoutDiff ==
    (ReturnedChangeSet /\ ~include_diff) =>
        /\ ret.diff = <<"Diff not included (set include_diff=true to see full diff)">>
        /\ ret.commits = <<None>>
        /\ ret.commits # <<>>

C10_Witness ==
    /\ ReturnedChangeSet /\ ~include_diff
    /\ max_diff_lines = 0
    /\ ret.diff = PLACEHOLDER

(***************************************************************************)
(* Properties of the event views                                           *)
(***************************************************************************)
\* Two characters that are the same letter in either case, and two strings
\* equal when case is ignored.
SameLetter(c, d) ==
    \/ c = d
    \/ \E i \in 1..26 : {c, d} = {UpperChars[i], LowerChars[i]}

EqualIgnoringCase(a, b) ==
    /\ Len(a) = Len(b)
    /\ \A i \in 1..Len(a) : SameLetter(a[i], b[i])

\* a workflow_run event with non-empty workflow_id, name and created_at
Complete(e) ==
    /\ e.event_type = "workflow_run"
    /\ e.workflow_run.workflow_id # 0
    /\ e.workflow_run.name # <<>>
    /\ e.workflow_run.created_at # <<>>

\* the name filter in force: none when workflow_name is None or empty
FilterActive(wname) ==
    wname # <<None>> /\ wname # <<>>

Qualifying(e, wname) ==
    /\ Complete(e)
    /\ FilterActive(wname) => EqualIgnoringCase(e.workflow_run.name, wname)

StatusOf(e) ==
    [name |-> e.workflow_run.name, status |-> e.workflow_run.status,
     conclusion |-> e.workflow_run.conclusion, url |-> e.workflow_run.html_url,
     created_at |-> e.workflow_run.created_at]

QualifyingFor(evs, wname, id) ==
    {i \in 1..Len(evs) : Qualifying(evs[i], wname) /\ evs[i].workflow_run.workflow_id = id}

QualifyingIds(evs, wname) ==
    {evs[i].workflow_run.workflow_id : i \in {j \in 1..Len(evs) : Qualifying(evs[j], wname)}}

Occurrences(seq, v) ==
    Cardinality({i \in 1..Len(seq) : seq[i] = v})

ReturnedStatuses ==
    op = "workflow" /\ pc = "done" /\ ret.kind = "statuses"

\* C4: the aggregation holds exactly one status per workflow_id that has a
\* qualifying event, it is the status of a qualifying event of that id whose
\* created_at no other qualifying event of the id exceeds, and the returned
\* list holds exactly these statuses.
C4_OneLatestPerWorkflow ==
    ReturnedStatuses =>
        LET evs == events.list
            ws == workflow_statuses
        IN  /\ \A i, j \in 1..Len(ws) : ws[i].key = ws[j].key => i = j
            /\ {ws[i].key : i \in 1..Len(ws)} = QualifyingIds(evs, workflow_name)
            /\ \A i \in 1..Len(ws) :
                   \E k \in QualifyingFor(evs, workflow_name, ws[i].key) :
                       /\ ws[i].value = StatusOf(evs[k])
                       /\ \A m \in QualifyingFor(evs, workflow_name, ws[i].key) :
                              ~str_gt(evs[m].workflow_run.created_at,
                                      evs[k].workflow_run.created_at)
            /\ Len(ret.list) = Cardinality(QualifyingIds(evs, workflow_name))
            /\ \A i \in 1..Len(ws) :
                   Occurrences(ret.list, ws[i].value)
                       = Occurrences(dict_values(ws), ws[i].value)

\* two events of workflow 1, the later one first in the feed
C4_Witness ==
    /\ ReturnedStatuses
    /\ Len(events.list) = 3
    /\ Cardinality(QualifyingFor(events.list, workflow_name, 1)) = 2
    /\ events.list[1].workflow_run.workflow_id = 1
    /\ events.list[1].workflow_run.created_at = <<"9">>
    /\ events.list[3].workflow_run.workflow_id = 1
    /\ events.list[3].workflow_run.created_at = <<"1", "0">>
    /\ Len(ret.list) = 1
    /\ ret.list[1] = StatusOf(events.list[1])

AsMapping(d) ==
    {<<d[i].key, d[i].value>> : i \in 1..Len(d)}

Reordered(evs, p) ==
    [i \in 1..Len(evs) |-> evs[p[i]]]

Reorderings(evs) ==
    {Reordered(evs, p) : p \in Permutations(1..Len(evs))}

\* C5 as stated: every reordering of the feed aggregates to the same status
\* per workflow_id.
C5_OrderIndependent ==
    ReturnedStatuses =>
        \A evs \in Reorderings(events.list) :
            AsMapping(aggregate(evs, workflow_name)) = AsMapping(workflow_statuses)

\* no two qualifying events of one workflow_id share a created_at while
\* differing in name, status, conclusion or url
NoConflictingTies(evs, wname) ==
    \A i, j \in 1..Len(evs) :
        (/\ Qualifying(evs[i], wname) /\ Qualifying(evs[j], wname)
         /\ evs[i].workflow_run.workflow_id = evs[j].workflow_run.workflow_id
         /\ evs[i].workflow_run.created_at = evs[j].workflow_run.created_at)
            => StatusOf(evs[i]) = StatusOf(evs[j])

\* C5 (amended): when no two qualifying events of one workflow_id share a
\* created_at while differing in another field, every reordering of the feed
\* aggregates to the same status per workflow_id.
C5_OrderIndependentWithoutTies ==
    (ReturnedStatuses /\ NoConflictingTies(events.list, workflow_name)) =>
        \A evs \in Reorderings(events.list) :
            AsMapping(aggregate(evs, workflow_name)) = AsMapping(workflow_statuses)

C5_Witness ==
    /\ ReturnedStatuses /\ NoConflictingTies(events.list, workflow_name)
    /\ Len(events.list) = 3
    /\ Cardinality(QualifyingFor(events.list, workflow_name, 1)) = 2
    /\ Cardinality(QualifyingFor(events.list, workflow_name, 2)) = 1
    /\ events.list[1].workflow_run.created_at # events.list[2].workflow_run.created_at
    /\ events.list[1].workflow_run.workflow_id = events.list[2].workflow_run.workflow_id

\* C6: over a fetched, non-empty feed of n events, recent(limit) returns the
\* last min(limit, n) events in feed order.
C6_LastLimitEvents ==
    (op = "recent" /\ pc = "done" /\ ret.kind = "events") =>
        LET n == Len(events.list)
        IN  ret.list = SubSeq(events.list, n - Min(limit, n) + 1, n)

MatchingOnly(evs, wname) ==
    SelectSeq(evs, LAMBDA e : EqualIgnoringCase(e.workflow_run.name, wname))

\* C7 as stated: for every supplied name filter, the result is the unfiltered
\* aggregation of the events whose name equals the filter ignoring case.
C7_FilterSkipsOthers ==
    (ReturnedStatuses /\ workflow_name # <<None>>) =>
        /\ ret.list = sort_desc(dict_values(
                          aggregate(MatchingOnly(events.list, workflow_name), <<None>>)))
        /\ \A i \in 1..Len(ret.list) : EqualIgnoringCase(ret.list[i].name, workflow_name)

\* C7 (amended): for every supplied, non-empty name filter, the result is the
\* unfiltered aggregation of the events whose name equals the filter ignoring
\* case, so every emitted status has a matching name.
C7_NonEmptyFilterSkipsOthers ==
    (ReturnedStatuses /\ workflow_name # <<None>> /\ workflow_name # <<>>) =>
        /\ ret.list = sort_desc(dict_values(
                          aggregate(MatchingOnly(events.list, workflow_name), <<None>>)))
        /\ \A i \in 1..Len(ret.list) : EqualIgnoringCase(ret.list[i].name, workflow_name)

\* filter "ci": a later "Dp" event of workflow 1 does not displace the "CI" one
C7_Witness ==
    /\ ReturnedStatuses
    /\ workflow_name = <<"c", "i">>
    /\ Len(events.list) = 2
    /\ events.list[1] = Event("workflow_run", Run(1, CI, "queued", None, "https://gh/run/1", <<"1", "0">>))
    /\ events.list[2] = Event("workflow_run", Run(1, Dp, "completed", "success", "https://gh/run/2", <<"9">>))
    /\ ret.list = <<StatusOf(events.list[1])>>

(***************************************************************************)
(* Properties of template selection                                        *)
(***************************************************************************)
SelectionDone ==
    op = "template" /\ pc = "done" /\ templates # <<>>

KeywordEntries(ctype) ==
    {i \in 1..Len(TYPE_MAPPING) : EqualIgnoringCase(ctype, TYPE_MAPPING[i].key)}

OPTIMIZATION ==
    <<"O", "P", "T", "I", "M", "I", "Z", "A", "T", "I", "O", "N">>

\* C9: with the catalog loaded, every classification string yields one
\* template of the catalog and no error; its filename is the keyword table's
\* entry for the string taken in lower case, feature.md when there is none;
\* "optimization" in any letter case selects performance.md.
C9_SelectionTotalAndTabled ==
    SelectionDone =>
        /\ ret.kind = "suggestion"
        /\ Cardinality({i \in 1..Len(templates) :
                            templates[i] = ret.recommended_template}) = 1
        /\ ret.template_content = <<"content of", ret.recommended_template.filename>>
        /\ \A i \in KeywordEntries(change_type) :
               ret.recommended_template.filename = TYPE_MAPPING[i].value
        /\ KeywordEntries(change_type) = {} =>
               ret.recommended_template.filename = "feature.md"
        /\ EqualIgnoringCase(change_type, OPTIMIZATION) =>
               ret.recommended_template.filename = "performance.md"

C9_Witness ==
    /\ SelectionDone
    /\ change_type = OPTIMIZATION
    /\ ret.kind = "suggestion"
    /\ ret.recommended_template.filename = "performance.md"

(***************************************************************************)
(* Order of the returned statuses                                          *)
(***************************************************************************)
\* C11: the returned statuses are sorted descending by created_at: of two
\* adjacent entries the later one's created_at never exceeds the earlier
\* one's (string order).
C11_SortedDescending ==
    ReturnedStatuses =>
        \A i \in 1..(Len(ret.list) - 1) :
            ~str_gt(ret.list[i + 1].created_at, ret.list[i].created_at)

\* workflow 1 is seen first with the smaller created_at, workflow 2 second
\* with the greater one: the dict's insertion order is ascending
C11_Witness ==
    /\ ReturnedStatuses
    /\ Len(workflow_statuses) = 2
    /\ workflow_statuses[1].value.created_at = <<"1", "0">>
    /\ workflow_statuses[2].value.created_at = <<"9">>
    /\ Len(ret.list) = 2
    /\ ret.list[1] = workflow_statuses[2].value
    /\ ret.list[2] = workflow_statuses[1].value

(***************************************************************************)
(* Order of the git commands of one call                                   *)
(***************************************************************************)
CommandOrder ==
    <<"name_status", "stat", "diff", "log">>

\* the commands of the call so far are the first ones of the fixed order,
\* each run once
IssuedInFixedOrder ==
    /\ Len(issued) <= Len(CommandOrder)
    /\ \A i \in 1..Len(issued) : issued[i].cmd = CommandOrder[i]

CommandFailed(run) ==
    run.kind = "raise" \/ run.rc # 0

\* C12: within one call the git commands are issued in the order name/status
\* diff, stat summary, full diff, commit log, each at most once, and no
\* command is issued after one that failed.
C12_InOrderNoneAfterFailure ==
    op = "analyze" =>
        /\ IssuedInFixedOrder
        /\ \A i \in 1..Len(issued) :
               CommandFailed(issued[i]) => i = Len(issued)

====
